---------------------------- MODULE Spec2Model ----------------------------
(***************************************************************************)
(* Model of CC_Monolith/cart/dao.py: the cart store.                       *)
(*                                                                         *)
(* A store is the SQLite file carts.db: whether the file exists, whether   *)
(* the carts table exists, the committed rows, the AUTOINCREMENT counter   *)
(* (sqlite_sequence), the holder of the write lock and the number of open  *)
(* connections.  A call of one of the four operations runs as a sequence   *)
(* of steps, one per statement that touches the file, so that calls of     *)
(* different callers interleave between statements.                        *)
(***************************************************************************)
EXTENDS Integers, Sequences, FiniteSets, TLC

(* ------------------------------ bounds -------------------------------- *)
NumProcs == 2
MaxId == 4
MaxRaceId == 2

Procs == 1..NumProcs
Stores == {1, 2}
Usernames == {"alice", "bob"}
Products == {1, 2}

\* Python None passed as username / SQL NULL (not a member of Usernames)
NULL == "<NULL>"
UserArgs == Usernames \cup {NULL}

Ops == {"get_cart", "add_to_cart", "remove_from_cart", "delete_cart"}
\* fault plans of a call: the statement at which the storage layer fails,
\* "none" for a call without failure, "any" when the environment is free
\* to fail any statement
Faults == {"none", "connect", "create_tables", "select", "execute", "commit"}
AnyFault == "any"

(* ------------------------- JSON text of a list ------------------------ *)
Digits == <<"1", "2", "3", "4", "5", "6", "7", "8", "9">>

IsDigit(c) == \E d \in 1..Len(Digits) : Digits[d] = c

DigitValue(c) == CHOOSE d \in 1..Len(Digits) : Digits[d] = c

RECURSIVE json_items(_)
json_items(s) ==
    IF s = <<>> THEN <<>>
    ELSE IF Len(s) = 1 THEN <<Digits[s[1]]>>
    ELSE <<Digits[s[1]], ",", " ">> \o json_items(Tail(s))

\* json.dumps(contents): "[1, 2]" as a sequence of characters
json_dumps(s) == <<"[">> \o json_items(s) \o <<"]">>

NotSpace(c) == c /= " "

\* the decoded value of a list: type "list", val its items
PyList(items) == [ok |-> TRUE, type |-> "list", val |-> items]

\* the decoded value of a number: type "int", val holds the number
PyInt(n) == [ok |-> TRUE, type |-> "int", val |-> <<n>>]

\* json.loads raises JSONDecodeError
NoJson == [ok |-> FALSE, type |-> "none", val |-> <<>>]

\* json.loads(text): a list for the text of an array, an int for the text
\* of a number, JSONDecodeError for a text that is not JSON
json_loads(t) ==
    IF Len(t) = 1 /\ IsDigit(t[1]) THEN PyInt(DigitValue(t[1]))
    ELSE IF Len(t) < 2 \/ t[1] /= "[" \/ t[Len(t)] /= "]" THEN NoJson
    ELSE LET inner == SelectSeq(SubSeq(t, 2, Len(t) - 1), NotSpace)
             n == Len(inner)
         IN  IF n = 0 THEN PyList(<<>>)
             ELSE IF /\ n % 2 = 1
                     /\ \A i \in 1..n : IF i % 2 = 1 THEN IsDigit(inner[i])
                                                     ELSE inner[i] = ","
                  THEN PyList([i \in 1..((n + 1) \div 2) |-> DigitValue(inner[2 * i - 1])])
                  ELSE NoJson

(* --------------------------- Python list ops -------------------------- *)
\* product_id in contents
Contains(s, x) == \E i \in 1..Len(s) : s[i] = x

FirstIndex(s, x) == CHOOSE i \in 1..Len(s) : s[i] = x /\ \A j \in 1..(i - 1) : s[j] /= x

\* a slip of contents.remove: the last occurrence is deleted
list_remove_last(s, x) ==
    LET k == CHOOSE i \in 1..Len(s) : s[i] = x /\ \A j \in (i + 1)..Len(s) : s[j] /= x
    IN  SubSeq(s, 1, k - 1) \o SubSeq(s, k + 1, Len(s))

\* contents.remove(product_id): deletes the first occurrence
list_remove(s, x) ==
    LET k == FirstIndex(s, x)
    IN  SubSeq(s, 1, k - 1) \o SubSeq(s, k + 1, Len(s))

(* ------------------------------ SQL ----------------------------------- *)
SetMax(S) == IF S = {} THEN 0 ELSE CHOOSE m \in S : \A x \in S : x <= m

Max2(a, b) == IF a >= b THEN a ELSE b

\* SELECT ... FROM carts WHERE username = ? (NULL = NULL matches nothing)
SelectRows(rows, u) == {r \in rows : u /= NULL /\ r.username = u}

\* cursor.fetchone(): a one-element sequence with the row, or <<>> for None
fetchone(rows, u) ==
    LET m == SelectRows(rows, u)
    IN  IF m = {} THEN <<>>
        ELSE <<CHOOSE r \in m : \A x \in m : r.id <= x.id>>

\* a slip of the upsert: a plain INSERT into a table without the UNIQUE
\* constraint, the row of the same username stays
InsertOrReplace_keeps(t, u, text, cost) ==
    IF u = NULL THEN [ok |-> FALSE, rows |-> t.rows, seq |-> t.seq]
    ELSE LET newid == Max2(t.seq, SetMax({r.id : r \in t.rows})) + 1
         IN  [ok |-> TRUE,
              rows |-> t.rows \cup {[id |-> newid, username |-> u,
                                     contents |-> text, cost |-> cost]},
              seq |-> newid]

\* another upsert: the last item of the new contents is merged into the
\* contents stored by now, the row is not overwritten with the caller's list
InsertOrReplace_merges(t, u, text, cost) ==
    IF u = NULL THEN [ok |-> FALSE, rows |-> t.rows, seq |-> t.seq]
    ELSE LET newid == Max2(t.seq, SetMax({r.id : r \in t.rows})) + 1
             old == fetchone(t.rows, u)
             new == json_loads(text).val
             merged == IF old = <<>> \/ new = <<>> THEN new
                       ELSE Append(json_loads(old[1].contents).val, new[Len(new)])
         IN  [ok |-> TRUE,
              rows |-> {r \in t.rows : r.username /= u}
                         \cup {[id |-> newid, username |-> u,
                                contents |-> json_dumps(merged), cost |-> cost]},
              seq |-> newid]

\* a slip of the upsert: the cost is computed from the contents
InsertOrReplace_costs(t, u, text, cost) ==
    IF u = NULL THEN [ok |-> FALSE, rows |-> t.rows, seq |-> t.seq]
    ELSE LET newid == Max2(t.seq, SetMax({r.id : r \in t.rows})) + 1
         IN  [ok |-> TRUE,
              rows |-> {r \in t.rows : r.username /= u}
                         \cup {[id |-> newid, username |-> u, contents |-> text,
                                cost |-> Len(json_loads(text).val)]},
              seq |-> newid]

\* a slip of the upsert: a cart that becomes empty loses its row
InsertOrReplace_drops_empty(t, u, text, cost) ==
    IF u = NULL THEN [ok |-> FALSE, rows |-> t.rows, seq |-> t.seq]
    ELSE LET newid == Max2(t.seq, SetMax({r.id : r \in t.rows})) + 1
         IN  [ok |-> TRUE,
              rows |-> {r \in t.rows : r.username /= u}
                         \cup (IF text = <<"[", "]">> THEN {}
                               ELSE {[id |-> newid, username |-> u,
                                      contents |-> text, cost |-> cost]}),
              seq |-> newid]

\* a slip of the schema: the id is not AUTOINCREMENT, the new row takes the
\* largest id in the table plus one
InsertOrReplace_reuses(t, u, text, cost) ==
    IF u = NULL THEN [ok |-> FALSE, rows |-> t.rows, seq |-> t.seq]
    ELSE LET kept == {r \in t.rows : r.username /= u}
             newid == SetMax({r.id : r \in kept}) + 1
         IN  [ok |-> TRUE,
              rows |-> kept \cup {[id |-> newid, username |-> u,
                                   contents |-> text, cost |-> cost]},
              seq |-> Max2(t.seq, newid)]

\* INSERT OR REPLACE INTO carts (username, contents, cost) VALUES (?, ?, ?)
\* on [rows, seq]; username is NOT NULL without default: NULL aborts.
\* AUTOINCREMENT: the new id is above every id ever assigned.
InsertOrReplace(t, u, text, cost) ==
    IF u = NULL THEN [ok |-> FALSE, rows |-> t.rows, seq |-> t.seq]
    ELSE LET newid == Max2(t.seq, SetMax({r.id : r \in t.rows})) + 1
         IN  [ok |-> TRUE,
              rows |-> {r \in t.rows : r.username /= u}
                         \cup {[id |-> newid, username |-> u,
                                contents |-> text, cost |-> cost]},
              seq |-> newid]

\* a slip of the DELETE: the row is emptied, not deleted
DeleteRows_empties(t, u) ==
    [ok |-> TRUE,
     rows |-> {IF r.username = u THEN [r EXCEPT !.contents = <<"[", "1", "]">>] ELSE r
                  : r \in t.rows},
     seq |-> t.seq]

\* DELETE FROM carts WHERE username = ?
DeleteRows(t, u) ==
    [ok |-> TRUE, rows |-> t.rows \ SelectRows(t.rows, u), seq |-> t.seq]

\* the table as created: no rows, no id assigned
NoRows == [rows |-> {}, seq |-> 0]

(* ------------------------------ state --------------------------------- *)
VARIABLES
    db,     \* db[s]: the store file s
    call,   \* call[p]: the call caller p is running or ran last
    home,   \* home[p]: the store caller p's calls reach
    hist    \* hist[u]: what the completed calls on u's cart were

vars == <<db, call, home, hist>>

\* db[s].used: every id a committed row of the store has ever had
EmptyDb == [file |-> FALSE, table |-> FALSE, rows |-> {}, seq |-> 0,
            writer |-> 0, open |-> 0, used |-> {}]

IdleCall == [pc |-> "idle", op |-> "none", username |-> NULL, product_id |-> 1,
             fault |-> "none", exists |-> FALSE, conn |-> "none",
             contents |-> <<>>, txn |-> NoRows,
             exc |-> "none", result |-> <<>>, result_type |-> "list",
             before |-> NoRows]

\* the committed table as a statement of a new transaction sees it
Committed(s) == [rows |-> db[s].rows, seq |-> db[s].seq]

HasRow(s, u) == SelectRows(db[s].rows, u) /= {}

Idle(p) == call[p].pc = "idle"

\* hist[u].kind: "adds" when, since u last had no row, the completed calls
\* that could change u's cart were successful add_to_cart calls of the
\* products hist[u].items, in this order; "mixed" otherwise; "raced" once
\* calls have overlapped.  hist[u].deleted: the last of these calls was a
\* successful delete_cart(u).  hist[u].added: a successful add_to_cart(u, _)
\* has completed since the last successful delete_cart(u), or since the
\* start.
NoCalls == [kind |-> "adds", items |-> <<>>, deleted |-> FALSE, added |-> FALSE]
Mixed == [kind |-> "mixed", items |-> <<>>, deleted |-> FALSE, added |-> FALSE]
Raced == [kind |-> "raced", items |-> <<>>, deleted |-> FALSE, added |-> FALSE]

Init ==
    /\ db = [s \in Stores |-> EmptyDb]
    /\ call = [p \in Procs |-> IdleCall]
    /\ home = [p \in Procs |-> 1]
    /\ hist = [u \in Usernames |-> NoCalls]


(* ---------------------- with_connection / connect --------------------- *)
\* calls on store s that may still write a row
Writers(s) ==
    {q \in Procs : /\ home[q] = s
                   /\ call[q].pc /= "idle"
                   /\ call[q].op \in {"add_to_cart", "remove_from_cart"}}

BodyPc(op) == IF op = "delete_cart" THEN "execute" ELSE "select"

\* the history of the carts once call c is over
HistAfter(c) ==
    IF c.username \notin Usernames \/ c.op = "get_cart"
          \/ hist[c.username].kind = "raced"
    THEN hist
    ELSE IF c.op = "delete_cart" /\ c.exc = "none"
    THEN [hist EXCEPT ![c.username] = [NoCalls EXCEPT !.deleted = TRUE]]
    ELSE IF c.op = "add_to_cart" /\ c.exc = "none" /\ hist[c.username].kind = "adds"
    THEN [hist EXCEPT ![c.username] =
             [NoCalls EXCEPT !.items = Append(hist[c.username].items, c.product_id),
                             !.added = TRUE]]
    ELSE [hist EXCEPT ![c.username] =
             [Mixed EXCEPT !.added = hist[c.username].added
                                        \/ (c.op = "add_to_cart" /\ c.exc = "none")]]

\* connect() raises exc: the wrapper's try block is never entered, the
\* exception leaves the wrapper with the connection in state conn
RaiseInConnect(p, exc, conn) ==
    call' = [call EXCEPT ![p].pc = "return", ![p].exc = exc, ![p].conn = conn,
                         ![p].exists = FALSE]

\* the body raises: control goes to the finally clause
RaiseInBody(p, exc) ==
    call' = [call EXCEPT ![p].pc = "close", ![p].exc = exc]

\* the storage layer fails statement stmt of p's call (fail = TRUE) or
\* lets it through, as the call's fault plan allows
Planned(p, stmt, fail) ==
    call[p].fault /= AnyFault => fail = (call[p].fault = stmt)

\* at most max row ids are ever assigned in store s
Quota(s, op, max) ==
    op \in {"add_to_cart", "remove_from_cart"} =>
        db[s].seq + Cardinality(Writers(s)) < max

\* a caller invokes op(username, product_id) under fault plan f; snap is
\* what is recorded of the table as the call starts
Call(p, op, u, prod, f, snap) ==
    /\ Idle(p)
    /\ Quota(home[p], op, MaxId)
    /\ call' = [call EXCEPT ![p] =
                   [IdleCall EXCEPT !.pc = "connect_exists", !.op = op,
                                    !.username = u, !.product_id = prod,
                                    !.fault = f, !.before = snap]]
    /\ hist' = IF \A q \in Procs : Idle(q) THEN hist
               ELSE [x \in Usernames |-> Raced]
    /\ UNCHANGED <<db, home>>

\* exists = os.path.exists(path)
connect_exists(p) ==
    /\ call[p].pc = "connect_exists"
    /\ call' = [call EXCEPT ![p].pc = "connect_open",
                            ![p].exists = db[home[p]].file]
    /\ UNCHANGED <<db, home, hist>>

\* conn = sqlite3.connect(path): creates the file when it is missing
connect_open(p, fail) ==
    /\ call[p].pc = "connect_open"
    /\ Planned(p, "connect", fail)
    /\ IF fail
       THEN /\ RaiseInConnect(p, "OperationalError", "none")
            /\ UNCHANGED db
       ELSE /\ db' = [db EXCEPT ![home[p]].file = TRUE,
                                ![home[p]].open = @ + 1]
            /\ call' = [call EXCEPT ![p].conn = "open", ![p].exists = FALSE,
                                    ![p].pc = IF call[p].exists
                                              THEN BodyPc(call[p].op)
                                              ELSE "create_tables"]
    /\ UNCHANGED <<home, hist>>

\* if not exists: create_tables(conn)
create_tables(p, fail) ==
    /\ call[p].pc = "create_tables"
    /\ Planned(p, "create_tables", fail)
    /\ IF fail
       THEN /\ RaiseInConnect(p, "OperationalError", "open")
            /\ UNCHANGED db
       ELSE /\ db' = [db EXCEPT ![home[p]].table = TRUE]
            /\ call' = [call EXCEPT ![p].pc = BodyPc(call[p].op)]
    /\ UNCHANGED <<home, hist>>

\* finally: conn.close(); an uncommitted transaction is rolled back
conn_close(p) ==
    /\ call[p].pc = "close"
    /\ call' = [call EXCEPT ![p].pc = "return", ![p].conn = "closed",
                            ![p].txn = IdleCall.txn]
    /\ db' = [db EXCEPT ![home[p]].open = @ - 1,
                        ![home[p]].writer = IF @ = p THEN 0 ELSE @]
    /\ UNCHANGED <<home, hist>>

\* return result (or the exception leaves the wrapper): the call is over
return(p) ==
    /\ call[p].pc = "return"
    /\ call' = [call EXCEPT ![p] = IdleCall]
    /\ hist' = HistAfter(call[p])
    /\ UNCHANGED <<db, home>>


(* --------------------------- the operations --------------------------- *)
\* the statement fails: a storage failure, or there is no carts table
Fails(p, fail) == fail \/ ~db[home[p]].table

\* get_cart returns a value of the given type
Returns(val, type) == [exc |-> "none", result |-> val, type |-> type]

\* get_cart raises exc
Raises(exc) == [exc |-> exc, result |-> <<>>, type |-> "list"]

\* add_to_cart or remove_from_cart ends without writing: by an early return
\* (exc = "none") or by an exception
NoWrite(exc) == [exc |-> exc, write |-> FALSE, contents |-> <<>>]

\* a slip of get_cart: the decoded contents are returned without duplicates
get_cart_body_dedup(cart) ==
    IF cart = <<>> THEN Returns(<<>>, "list")
    ELSE LET d == json_loads(cart[1].contents)
             keep == {i \in 1..Len(d.val) : \A j \in 1..(i - 1) : d.val[j] /= d.val[i]}
             F[i \in 0..Len(d.val)] ==
                 IF i = 0 THEN <<>>
                 ELSE IF i \in keep THEN Append(F[i - 1], d.val[i]) ELSE F[i - 1]
         IN  IF d.ok THEN Returns(F[Len(d.val)], d.type)
             ELSE Raises("JSONDecodeError")

\* a slip of get_cart: a missing row is reported as an error
get_cart_body_not_found(cart) ==
    IF cart = <<>> THEN Raises("KeyError")
    ELSE LET d == json_loads(cart[1].contents)
         IN  IF d.ok THEN Returns(d.val, d.type)
             ELSE Raises("JSONDecodeError")

\* get_cart after the SELECT: [] without a row, else the decoded contents,
\* whatever their type
get_cart_body(cart) ==
    IF cart = <<>> THEN Returns(<<>>, "list")
    ELSE LET d == json_loads(cart[1].contents)
         IN  IF d.ok THEN Returns(d.val, d.type)
             ELSE Raises("JSONDecodeError")

\* a slip of contents.append: the product is put in front
list_append_in_front(s, x) == <<x>> \o s

\* contents.append(product_id)
list_append(s, x) == Append(s, x)

\* add_to_cart after the SELECT: the contents to write
add_to_cart_body(row, product_id) ==
    LET d == IF row = <<>> THEN PyList(<<>>) ELSE json_loads(row[1].contents)
    IN  IF ~d.ok THEN NoWrite("JSONDecodeError")
        ELSE IF d.type /= "list" THEN NoWrite("AttributeError")
        ELSE [exc |-> "none", write |-> TRUE,
              contents |-> list_append(d.val, product_id)]

\* a slip of remove_from_cart: a missing row is read as empty contents and
\* the row is written back whether or not the product was found
remove_from_cart_body_upsert(row, product_id) ==
    LET d == IF row = <<>> THEN PyList(<<>>) ELSE json_loads(row[1].contents)
    IN  IF ~d.ok THEN NoWrite("JSONDecodeError")
        ELSE IF d.type /= "list" THEN NoWrite("TypeError")
        ELSE [exc |-> "none", write |-> TRUE,
              contents |-> IF Contains(d.val, product_id)
                           THEN list_remove(d.val, product_id) ELSE d.val]

\* remove_from_cart after the SELECT: return early without a row or
\* without the product, else the contents to write
remove_from_cart_body(row, product_id) ==
    IF row = <<>> THEN NoWrite("none")
    ELSE LET d == json_loads(row[1].contents)
         IN  IF ~d.ok THEN NoWrite("JSONDecodeError")
             ELSE IF d.type /= "list" THEN NoWrite("TypeError")
             ELSE IF Contains(d.val, product_id)
             THEN [exc |-> "none", write |-> TRUE,
                   contents |-> list_remove(d.val, product_id)]
             ELSE NoWrite("none")

\* get_cart: SELECT * FROM carts WHERE username = ?, then the body
get_cart(p, fail) ==
    /\ call[p].pc = "select" /\ call[p].op = "get_cart"
    /\ Planned(p, "select", fail)
    /\ IF Fails(p, fail) THEN RaiseInBody(p, "OperationalError")
       ELSE LET r == get_cart_body(fetchone(db[home[p]].rows, call[p].username))
            IN  call' = [call EXCEPT ![p].pc = "close", ![p].exc = r.exc,
                                     ![p].result = r.result,
                                     ![p].result_type = r.type]
    /\ UNCHANGED <<db, home, hist>>

\* the SELECT of add_to_cart and remove_from_cart has given outcome r
AfterSelect(p, r) ==
    call' = [call EXCEPT ![p].pc = IF r.write THEN "execute" ELSE "close",
                         ![p].exc = r.exc, ![p].contents = r.contents]

\* add_to_cart: SELECT contents FROM carts WHERE username = ?, then the body
add_to_cart_select(p, fail) ==
    /\ call[p].pc = "select" /\ call[p].op = "add_to_cart"
    /\ Planned(p, "select", fail)
    /\ IF Fails(p, fail) THEN RaiseInBody(p, "OperationalError")
       ELSE AfterSelect(p, add_to_cart_body(
                fetchone(db[home[p]].rows, call[p].username), call[p].product_id))
    /\ UNCHANGED <<db, home, hist>>

\* remove_from_cart: SELECT contents FROM carts WHERE username = ?, then the body
remove_from_cart_select(p, fail) ==
    /\ call[p].pc = "select" /\ call[p].op = "remove_from_cart"
    /\ Planned(p, "select", fail)
    /\ IF Fails(p, fail) THEN RaiseInBody(p, "OperationalError")
       ELSE AfterSelect(p, remove_from_cart_body(
                fetchone(db[home[p]].rows, call[p].username), call[p].product_id))
    /\ UNCHANGED <<db, home, hist>>

\* cursor.execute of a writing statement with outcome r: it opens the
\* implicit transaction, which needs the write lock of the file
ExecuteWrite(p, r, fail) ==
    /\ Planned(p, "execute", fail)
    /\ IF Fails(p, fail)
       THEN RaiseInBody(p, "OperationalError") /\ UNCHANGED db
       ELSE /\ db[home[p]].writer = 0
            /\ IF r.ok
               THEN /\ call' = [call EXCEPT ![p].pc = "commit",
                                   ![p].txn = [rows |-> r.rows, seq |-> r.seq]]
                    /\ db' = [db EXCEPT ![home[p]].writer = p]
               ELSE RaiseInBody(p, "IntegrityError") /\ UNCHANGED db

\* add_to_cart: INSERT OR REPLACE ... (username, json.dumps(contents), 0)
add_to_cart_insert(p, fail) ==
    /\ call[p].pc = "execute" /\ call[p].op = "add_to_cart"
    /\ ExecuteWrite(p, InsertOrReplace(Committed(home[p]), call[p].username,
                                       json_dumps(call[p].contents), 0), fail)
    /\ UNCHANGED <<home, hist>>

\* remove_from_cart: INSERT OR REPLACE ... (username, json.dumps(contents), 0)
remove_from_cart_insert(p, fail) ==
    /\ call[p].pc = "execute" /\ call[p].op = "remove_from_cart"
    /\ ExecuteWrite(p, InsertOrReplace(Committed(home[p]), call[p].username,
                                       json_dumps(call[p].contents), 0), fail)
    /\ UNCHANGED <<home, hist>>

\* delete_cart: DELETE FROM carts WHERE username = ?
delete_cart(p, fail) ==
    /\ call[p].pc = "execute" /\ call[p].op = "delete_cart"
    /\ ExecuteWrite(p, DeleteRows(Committed(home[p]), call[p].username), fail)
    /\ UNCHANGED <<home, hist>>

\* conn.commit(): the transaction's rows become the committed rows
commit(p, fail) ==
    /\ call[p].pc = "commit"
    /\ Planned(p, "commit", fail)
    /\ IF fail
       THEN RaiseInBody(p, "OperationalError") /\ UNCHANGED db
       ELSE /\ db' = [db EXCEPT ![home[p]].rows = call[p].txn.rows,
                                ![home[p]].seq = call[p].txn.seq,
                                ![home[p]].writer = 0,
                                ![home[p]].used =
                                    @ \cup {r.id : r \in call[p].txn.rows}]
            /\ call' = [call EXCEPT ![p].pc = "close"]
    /\ UNCHANGED <<home, hist>>

(* --------------------------- specifications --------------------------- *)
\* the arguments of a call: get_cart and delete_cart take no product
Args(op) == IF op \in {"add_to_cart", "remove_from_cart"} THEN Products ELSE {1}

\* the steps of a running call that found the file, up to the end of the
\* finally clause
RunOnFile(p) ==
    \/ connect_exists(p)
    \/ \E fail \in BOOLEAN : connect_open(p, fail)
    \/ \E fail \in BOOLEAN : get_cart(p, fail)
    \/ \E fail \in BOOLEAN : add_to_cart_select(p, fail)
    \/ \E fail \in BOOLEAN : add_to_cart_insert(p, fail)
    \/ \E fail \in BOOLEAN : remove_from_cart_select(p, fail)
    \/ \E fail \in BOOLEAN : remove_from_cart_insert(p, fail)
    \/ \E fail \in BOOLEAN : delete_cart(p, fail)
    \/ \E fail \in BOOLEAN : commit(p, fail)
    \/ conn_close(p)

\* the steps of a running call up to the end of the finally clause
Run(p) ==
    \/ \E fail \in BOOLEAN : create_tables(p, fail)
    \/ RunOnFile(p)

\* callers run concurrently: a call starts at any time, steps interleave
ConcurrentCall(p, op, u, prod, f) ==
    /\ Quota(home[p], op, MaxRaceId)
    /\ Call(p, op, u, prod, f, NoRows)

Next ==
    \/ \E p \in Procs, op \in Ops, u \in UserArgs :
          \E prod \in Args(op) : ConcurrentCall(p, op, u, prod, AnyFault)
    \/ \E p \in Procs : Run(p)
    \/ \E p \in Procs : return(p)

Spec == Init /\ [][Next]_vars

\* calls are issued serially, by caller 1: a call starts when the call
\* before it has returned
SerialCall(op, u, prod, f) ==
    /\ \A q \in Procs : Idle(q)
    /\ Call(1, op, u, prod, f, Committed(home[1]))

SerialNext ==
    \/ \E op \in Ops, u \in UserArgs :
          \E prod \in Args(op) : SerialCall(op, u, prod, AnyFault)
    \/ Run(1)
    \/ return(1)

SerialSpec == Init /\ [][SerialNext]_vars

(* --------------------- calls on distinct usernames -------------------- *)
\* callers run concurrently, but no two running calls name the same user;
\* the storage layer fails no statement
IsolatedCall(p, op, u, prod) ==
    /\ \A q \in Procs \ {p} : Idle(q) \/ call[q].username /= u
    /\ Quota(home[p], op, MaxRaceId)
    /\ Call(p, op, u, prod, "none", Committed(home[p]))

IsolationNext ==
    \/ \E p \in Procs, op \in Ops, u \in Usernames :
          \E prod \in Args(op) : IsolatedCall(p, op, u, prod)
    \/ \E p \in Procs : Run(p)
    \/ \E p \in Procs : return(p)

IsolationSpec == Init /\ [][IsolationNext]_vars

(* -------------------------- stored contents --------------------------- *)
\* texts the contents column can hold that are not the text of an array:
\* a cut-off array, which is not JSON, and a number, which is
StoredTexts == {<<"[", "1">>, <<"2">>}

\* between two calls, something other than this module stores text in the
\* contents column of u's row (the column takes any text)
ExternalWrite(u, text) ==
    /\ \A q \in Procs : Idle(q)
    /\ \E r \in SelectRows(db[1].rows, u) : r.contents /= text
    /\ db' = [db EXCEPT ![1].rows =
                 {IF r.username = u THEN [r EXCEPT !.contents = text] ELSE r :
                      r \in db[1].rows}]
    /\ hist' = [hist EXCEPT ![u] = [Mixed EXCEPT !.added = hist[u].added]]
    /\ UNCHANGED <<call, home>>

StoredCall(op, u, prod, f) ==
    /\ Quota(home[1], op, MaxRaceId)
    /\ SerialCall(op, u, prod, f)

StoredNext ==
    \/ \E op \in Ops, u \in UserArgs :
          \E prod \in Args(op) : StoredCall(op, u, prod, AnyFault)
    \/ \E u \in Usernames, text \in StoredTexts : ExternalWrite(u, text)
    \/ Run(1)
    \/ return(1)

StoredSpec == Init /\ [][StoredNext]_vars

(* ------------------------------- twins -------------------------------- *)
\* Two stores that differ only in u's row: store 1 holds a row for u with
\* empty contents (u added product 1 and removed it), store 2 holds none
\* (u never added anything, or u's cart was deleted).  Caller 1 works on
\* store 1, caller 2 on store 2; they issue the same serial sequence of
\* calls under the same storage faults, each pair of calls returning
\* together.  The file and the table of both stores exist, no call creates
\* the schema.
Table(t) == [file |-> TRUE, table |-> TRUE, rows |-> t.rows, seq |-> t.seq,
             writer |-> 0, open |-> 0, used |-> 1..t.seq]

\* the tables other callers may have left: the other users with a cart or not
OtherTables(u) ==
    {NoRows} \cup {InsertOrReplace(NoRows, v, json_dumps(c), 0) :
                       v \in Usernames \ {u}, c \in {<<>>, <<1>>, <<2>>}}

EmptiedCart(t, u) ==
    InsertOrReplace(InsertOrReplace(t, u, json_dumps(<<1>>), 0),
                    u, json_dumps(<<>>), 0)

TwinInit ==
    /\ \E u \in Usernames : \E t \in OtherTables(u) :
          \E t2 \in {t, DeleteRows(EmptiedCart(t, u), u)} :
             db = [s \in Stores |-> IF s = 1 THEN Table(EmptiedCart(t, u))
                                              ELSE Table(t2)]
    /\ call = [p \in Procs |-> IdleCall]
    /\ home = [p \in Procs |-> IF p = 1 THEN 1 ELSE 2]
    /\ hist = [u \in Usernames |-> Mixed]

\* caller 1 issues a call on store 1
TwinCall(op, u, prod, f) ==
    /\ \A q \in Procs : Idle(q)
    /\ Call(1, op, u, prod, f, NoRows)

\* caller 2 issues the same call on store 2
TwinEcho ==
    /\ call[1].pc = "return"
    /\ Call(2, call[1].op, call[1].username, call[1].product_id, call[1].fault,
            NoRows)

\* the two calls return together
TwinReturn(p) ==
    /\ IF p = 1 THEN call[2].pc = "return" ELSE Idle(1)
    /\ return(p)

TwinNext ==
    \/ \E op \in Ops, u \in UserArgs, f \in Faults :
          \E prod \in Args(op) : TwinCall(op, u, prod, f)
    \/ TwinEcho
    \/ \E p \in {1, 2} : RunOnFile(p)
    \/ \E p \in {1, 2} : TwinReturn(p)

TwinSpec == TwinInit /\ [][TwinNext]_vars

(* ------------------------------ claims -------------------------------- *)
\* caller p's call of op on a user name is over and about to return
AtReturn(p, op) ==
    /\ call[p].pc = "return"
    /\ call[p].op = op
    /\ call[p].username \in Usernames

\* the call of p met no storage failure
StorageOk(p) == call[p].exc /= "OperationalError"

\* the text of u's contents column in a table, <<>> without a row
TextIn(t, u) ==
    IF fetchone(t.rows, u) = <<>> THEN <<>> ELSE fetchone(t.rows, u)[1].contents

\* the decoded contents of u's row in a table, <<>> without a row
CartIn(t, u) ==
    IF fetchone(t.rows, u) = <<>> THEN <<>> ELSE json_loads(TextIn(t, u)).val

RowIn(t, u) == fetchone(t.rows, u) /= <<>>

\* b is a with its element at index k taken out
DeletedAt(a, b, k) ==
    /\ Len(b) = Len(a) - 1
    /\ \A i \in 1..Len(b) : b[i] = IF i < k THEN a[i] ELSE a[i + 1]

\* C1: when u starts without a row and the calls on u's cart are serial
\* successful add_to_cart(u, p1), ..., add_to_cart(u, pn), get_cart(u)
\* returns exactly <<p1, ..., pn>>: same length, same order, duplicates kept.
C1_SerialAddsRoundTrip ==
    \A p \in Procs :
        (AtReturn(p, "get_cart") /\ StorageOk(p)
            /\ hist[call[p].username].kind = "adds")
        => /\ call[p].exc = "none"
           /\ call[p].result = hist[call[p].username].items

C1_Witness ==
    \E p \in Procs :
        /\ AtReturn(p, "get_cart") /\ call[p].exc = "none"
        /\ hist[call[p].username].kind = "adds"
        /\ call[p].result = <<1, 2, 1>>

\* C2: a serial remove_from_cart(u, p) on a row whose contents contain p
\* leaves the contents with only the occurrence of p at the lowest index
\* taken out (length one less, the rest in order); when p is absent or u has
\* no row the call raises nothing and u's cart reads the same as before.
C2_RemoveFirstOccurrence ==
    \A p \in Procs :
        (AtReturn(p, "remove_from_cart") /\ StorageOk(p))
        => LET u == call[p].username
               x == call[p].product_id
               b == CartIn(call[p].before, u)
               a == CartIn(Committed(home[p]), u)
           IN  /\ call[p].exc = "none"
               /\ IF RowIn(call[p].before, u) /\ Contains(b, x)
                  THEN \E k \in 1..Len(b) :
                          /\ b[k] = x
                          /\ \A j \in 1..(k - 1) : b[j] /= x
                          /\ DeletedAt(b, a, k)
                  ELSE a = b

C2_Witness ==
    \E p \in Procs :
        /\ AtReturn(p, "remove_from_cart") /\ call[p].exc = "none"
        /\ CartIn(call[p].before, call[p].username) = <<1, 2, 1>>
        /\ call[p].product_id = 1
        /\ CartIn(Committed(home[p]), call[p].username) = <<2, 1>>

\* C3: in a serial run, get_cart(u) after a successful delete_cart(u)
\* returns the empty sequence, whether or not u had a row before the
\* delete, and delete_cart(u) without a row raises nothing.
C3_DeleteThenGetEmpty ==
    \A p \in Procs :
        /\ (AtReturn(p, "get_cart") /\ StorageOk(p)
                /\ hist[call[p].username].deleted)
           => (call[p].exc = "none" /\ call[p].result = <<>>)
        /\ (AtReturn(p, "delete_cart") /\ StorageOk(p))
           => (call[p].exc = "none" /\ ~HasRow(home[p], call[p].username))

C3_Witness ==
    \E p \in Procs :
        /\ AtReturn(p, "get_cart") /\ call[p].exc = "none"
        /\ hist[call[p].username].deleted
        /\ db[home[p]].seq >= 2
        /\ call[p].result = <<>>

\* C4: get_cart(u) returns the empty sequence when u has no row, else the
\* list whose JSON text is the stored contents (nothing dropped, nothing
\* reordered), and leaves the rows and the id counter as they were.
C4_GetCartReadsOnly ==
    \A p \in Procs :
        AtReturn(p, "get_cart")
        => /\ Committed(home[p]) = call[p].before
           /\ StorageOk(p) =>
                 /\ call[p].exc = "none"
                 /\ IF RowIn(call[p].before, call[p].username)
                    THEN json_dumps(call[p].result)
                            = TextIn(call[p].before, call[p].username)
                    ELSE call[p].result = <<>>

C4_Witness ==
    \E p \in Procs :
        /\ AtReturn(p, "get_cart") /\ call[p].exc = "none"
        /\ call[p].result = <<2, 1, 1>>
        /\ \E v \in Usernames : ~RowIn(call[p].before, v)

\* C5: a serial remove_from_cart(u, p) that finds no row for u, or finds p
\* absent from the contents, raises nothing and leaves the whole table as it
\* was: no row created, deleted or rewritten, every id, contents and cost
\* the same.
C5_RemoveNoOpKeepsTable ==
    \A p \in Procs :
        (/\ AtReturn(p, "remove_from_cart")
         /\ \/ ~RowIn(call[p].before, call[p].username)
            \/ ~Contains(CartIn(call[p].before, call[p].username),
                         call[p].product_id))
        => /\ Committed(home[p]) = call[p].before
           /\ call[p].exc \in {"none", "OperationalError"}

C5_Witness ==
    \E p \in Procs :
        /\ AtReturn(p, "remove_from_cart") /\ call[p].exc = "none"
        /\ ~RowIn(call[p].before, call[p].username)
        /\ call[p].before.rows /= {}
        /\ Committed(home[p]) = call[p].before

\* the rows of every table: committed, or written in an open transaction
AllRows ==
    UNION {db[s].rows : s \in Stores}
        \cup UNION {call[p].txn.rows : p \in Procs}

\* C6: under any interleaving of the calls, a table holds at most one row
\* per username and no row has a null username.
C6_OneRowPerUsername ==
    /\ \A r \in AllRows : r.username \in Usernames
    /\ \A s \in Stores : \A r1, r2 \in db[s].rows :
          r1.username = r2.username => r1 = r2
    /\ \A p \in Procs : \A r1, r2 \in call[p].txn.rows :
          r1.username = r2.username => r1 = r2

C6_Witness ==
    \E p, q \in Procs :
        /\ p /= q
        /\ AtReturn(p, "add_to_cart") /\ call[p].exc = "none"
        /\ AtReturn(q, "add_to_cart") /\ call[q].exc = "none"
        /\ call[p].username = call[q].username
        /\ Cardinality(SelectRows(db[home[p]].rows, call[p].username)) = 1
        /\ db[home[p]].seq = 2

\* C7: the commit of add_to_cart(u, p) stores the list the call computed
\* from its own read, c + [p], whatever was committed to u's row since that
\* read; so of two concurrent adds that read the same c, the stored
\* contents are c + [p] or c + [q] and one completed addition is lost.
C7_StaleWriteWins ==
    [][\A p \in Procs :
          (/\ call[p].op = "add_to_cart"
           /\ call[p].pc = "commit"
           /\ call'[p].pc = "close"
           /\ call'[p].exc = "none")
          => CartIn(Committed(home[p])', call[p].username) = call[p].contents]_vars

C7_Witness ==
    \E p, q \in Procs :
        /\ p /= q
        /\ AtReturn(p, "add_to_cart") /\ call[p].exc = "none"
        /\ AtReturn(q, "add_to_cart") /\ call[q].exc = "none"
        /\ call[p].username = call[q].username
        /\ call[p].product_id /= call[q].product_id
        /\ \E c \in {<<>>, <<1>>, <<2>>} :
              /\ call[p].contents = Append(c, call[p].product_id)
              /\ call[q].contents = Append(c, call[q].product_id)
              /\ CartIn(Committed(home[p]), call[p].username) = call[q].contents

\* C8: every call closes the connection it opened by the time it ends, on
\* every exit path, a failure of the schema creation included; when no call
\* is running no connection is open.
C8_ConnectionsClosed ==
    /\ \A p \in Procs : call[p].pc = "return" => call[p].conn /= "open"
    /\ (\A p \in Procs : Idle(p)) => \A s \in Stores : db[s].open = 0

\* C9: every row has cost zero.
C9_CostZero == \A r \in AllRows : r.cost = 0

C9_Witness ==
    \E p \in Procs :
        /\ AtReturn(p, "remove_from_cart") /\ call[p].exc = "none"
        /\ \E r \in db[home[p]].rows :
              /\ r.username = call[p].username
              /\ r.id = 2
              /\ r.contents = json_dumps(<<>>)
              /\ r.cost = 0

\* C10: of two stores that differ only in that one has a row for u with
\* empty contents and the other has no row for u, the same serial calls
\* return the same values and raise the same errors, and a call on a user
\* name that meets no storage failure raises nothing.
C10_EmptyLikeAbsent ==
    (call[1].pc = "return" /\ call[2].pc = "return")
    => /\ call[1].exc = call[2].exc
       /\ call[1].result = call[2].result
       /\ \A p \in {1, 2} :
             (call[p].fault = "none" /\ call[p].username \in Usernames)
             => call[p].exc = "none"

C10_Witness ==
    /\ call[1].pc = "return" /\ call[2].pc = "return"
    /\ call[1].op = "get_cart" /\ call[1].exc = "none"
    /\ HasRow(1, call[1].username)
    /\ ~HasRow(2, call[2].username)
    /\ call[2].result = <<>>

\* C11: in a serial run, between calls, u has a row exactly when a
\* successful add_to_cart(u, _) has completed since the last successful
\* delete_cart(u) or since the start; only add_to_cart creates a row, only
\* delete_cart destroys one, and a remove_from_cart that takes out the last
\* item leaves a row with empty contents.
C11_RowLifecycle ==
    /\ (\A q \in Procs : Idle(q))
       => \A u \in Usernames : HasRow(1, u) <=> hist[u].added
    /\ \A p \in Procs : \A u \in Usernames :
          call[p].pc = "return"
          => /\ (HasRow(home[p], u) /\ ~RowIn(call[p].before, u))
                => (call[p].op = "add_to_cart" /\ call[p].username = u)
             /\ (~HasRow(home[p], u) /\ RowIn(call[p].before, u))
                => (call[p].op = "delete_cart" /\ call[p].username = u)

C11_Witness ==
    \E p \in Procs :
        /\ AtReturn(p, "remove_from_cart") /\ call[p].exc = "none"
        /\ CartIn(call[p].before, call[p].username) = <<2>>
        /\ call[p].product_id = 2
        /\ HasRow(home[p], call[p].username)
        /\ TextIn(Committed(home[p]), call[p].username) = <<"[", "]">>

\* C12: for every interleaving of concurrent first calls on a store whose
\* file does not exist, no call is at its SELECT, INSERT or DELETE while the
\* table is missing: here, while another call that found no file at its
\* check has opened the file and is about to create the table.
C12_TableBeforeStatements ==
    \A p \in Procs :
        (/\ call[p].pc \in {"select", "execute"}
         /\ \E q \in Procs \ {p} :
                home[q] = home[p] /\ call[q].pc = "create_tables")
        => db[home[p]].table

\* the call of p started on a row of its user whose contents are not the
\* text of a JSON array
OnMalformed(p) ==
    /\ RowIn(call[p].before, call[p].username)
    /\ LET d == json_loads(TextIn(call[p].before, call[p].username))
       IN  ~(d.ok /\ d.type = "list")

\* C13: when the stored contents of u's row cannot be decoded as a JSON
\* array, get_cart(u), add_to_cart(u, p) and remove_from_cart(u, p) each
\* fail, write nothing (every row is as before) and leave no connection
\* open; delete_cart(u), unless storage fails, succeeds and removes the row.
C13_MalformedContentsFail ==
    \A p \in Procs :
        /\ \A op \in {"get_cart", "add_to_cart", "remove_from_cart"} :
              (AtReturn(p, op) /\ OnMalformed(p))
              => /\ call[p].exc /= "none"
                 /\ Committed(home[p]) = call[p].before
                 /\ call[p].conn /= "open"
        /\ (AtReturn(p, "delete_cart") /\ OnMalformed(p) /\ StorageOk(p))
              => /\ call[p].exc = "none"
                 /\ ~HasRow(home[p], call[p].username)
                 /\ call[p].conn /= "open"

\* u's row as a serial execution of op(u, product_id) leaves it, starting
\* from table t
SerialOutcome(op, t, u, product_id) ==
    IF op = "add_to_cart"
    THEN [row |-> TRUE, contents |-> Append(CartIn(t, u), product_id)]
    ELSE IF op = "delete_cart" THEN [row |-> FALSE, contents |-> <<>>]
    ELSE IF op = "remove_from_cart" /\ Contains(CartIn(t, u), product_id)
    THEN [row |-> TRUE, contents |-> list_remove(CartIn(t, u), product_id)]
    ELSE [row |-> RowIn(t, u), contents |-> CartIn(t, u)]

\* C14: per-username isolation.  A step changes the contents or the cost
\* of v's row only if it is the commit of a call on v; and when the running
\* calls name pairwise distinct users, each call on u returns with u's row
\* as the serial execution of the call leaves it, whatever the interleaving.
C14_PerUsernameIsolation ==
    [][/\ \A s \in Stores, v \in Usernames :
             {<<r.contents, r.cost>> : r \in SelectRows(db[s].rows, v)}
                 /= {<<r.contents, r.cost>> : r \in SelectRows(db[s].rows', v)}
             => \E p \in Procs : /\ home[p] = s
                                  /\ call[p].pc = "commit"
                                  /\ call'[p].pc = "close"
                                  /\ call[p].username = v
       /\ \A p \in Procs :
             (call[p].pc = "return" /\ call'[p].pc = "idle"
                 /\ call[p].username \in Usernames)
             => LET u == call[p].username
                    o == SerialOutcome(call[p].op, call[p].before, u,
                                       call[p].product_id)
                IN  /\ HasRow(home[p], u) = o.row
                    /\ CartIn(Committed(home[p]), u) = o.contents]_vars

\* C15: once delete_cart(u) has completed, the items u's cart held before
\* the delete do not come back unless add_to_cart(u, _) adds them again,
\* also when an add_to_cart or remove_from_cart on u that read before the
\* delete writes after it: with no delete_cart(u) running, a commit of
\* add_to_cart(u, x) that finds no row for u stores [x], one of
\* remove_from_cart stores no item.
C15_DeletedItemsStayDeleted ==
    [][\A p \in Procs :
          (/\ call[p].op \in {"add_to_cart", "remove_from_cart"}
           /\ call[p].pc = "commit"
           /\ call'[p].pc = "close"
           /\ call'[p].exc = "none"
           /\ ~HasRow(home[p], call[p].username)
           /\ \A q \in Procs : ~(/\ call[q].op = "delete_cart"
                                  /\ call[q].username = call[p].username))
          => CartIn(Committed(home[p])', call[p].username)
                = IF call[p].op = "add_to_cart" THEN <<call[p].product_id>>
                  ELSE <<>>]_vars

\* C16: ids are never reused and change on every replace.  The commit of
\* an add_to_cart or of a writing remove_from_cart on u leaves u's row with
\* an id greater than every id a row of the store has had before, rows
\* since deleted or replaced included, so not the id u's row had before;
\* and distinct rows never have the same id.
C16_IdsNeverReused ==
    [][/\ \A s \in Stores : \A r1, r2 \in db[s].rows' :
             r1.id = r2.id => r1 = r2
       /\ \A p \in Procs :
             (/\ call[p].op \in {"add_to_cart", "remove_from_cart"}
              /\ call[p].pc = "commit"
              /\ call'[p].pc = "close"
              /\ call'[p].exc = "none")
             => \A r \in SelectRows(db[home[p]].rows', call[p].username) :
                   /\ \A i \in db[home[p]].used : r.id > i
                   /\ \A old \in db[home[p]].rows : r.id > old.id]_vars

C16_Witness ==
    \E p \in Procs :
        /\ AtReturn(p, "add_to_cart") /\ call[p].exc = "none"
        /\ hist[call[p].username].deleted
        /\ \E r \in SelectRows(db[home[p]].rows, call[p].username) : r.id = 2
        /\ 1 \in db[home[p]].used
        /\ \A r \in db[home[p]].rows : r.id /= 1

=============================================================================
